---- MODULE Spec2Model ----
(***************************************************************************)
(* State-machine model of src/intersection-observer.js: the                *)
(* IntersectionObserver that shares an element's viewport intersection     *)
(* data with the windows of an iframe that asked for it.                   *)
(*                                                                         *)
(* Every handler of the class is a pure operator from a state record to a  *)
(* state record (JavaScript runs each handler to completion); an action    *)
(* applies one handler to the current state.  The collaborators the class  *)
(* calls (vsync, viewport observables, timer, postMessageToWindows, the    *)
(* element's clock) are modelled by what the class observes of them.       *)
(***************************************************************************)
EXTENDS Integers, Sequences, FiniteSets

\* ---------------------------------------------------------------- bounds
MaxTime  == 200      \* the clock stops advancing here
TickStep == 50       \* milliseconds per clock step
MaxOps   == 3        \* operations delivered by the page (handshakes, viewport callbacks, scrolls)
GeomMax  == 2        \* largest coordinate and dimension of the rectangles tried
MaxLiveOps == 2      \* operations delivered by the page in the runs checked for progress

\* ------------------------------------------------------ program constants
FlushDelay == 100    \* timer.delay(this.boundFlush_, 100)

Wins    == {"w1", "w2"}
Origins == {"https://a.test", "https://b.test"}

\* the values of an optional closure: never assigned, null, or a function
\* closing over the two unlisten functions the observables returned
Undefined == [kind |-> "undefined", scroll |-> 0, changed |-> 0]
Null      == [kind |-> "null", scroll |-> 0, changed |-> 0]
Closure(unlistenScroll, unlistenChanged) ==
  [kind |-> "function", scroll |-> unlistenScroll, changed |-> unlistenChanged]

VARIABLES
  clientWindows_,                  \* this.clientWindows_ : sequence of [win, origin]
  shouldSendIntersectionChanges_,  \* this.shouldSendIntersectionChanges_
  inViewport_,                     \* this.inViewport_
  pendingChanges_,                 \* this.pendingChanges_ : sequence of change entries
  flushTimeout_,                   \* this.flushTimeout_ : 0 or a timer handle
  unlistenViewportChanges_,        \* this.unlistenViewportChanges_ : undefined, null or closure
  scrollHandlers,                  \* handlers this object holds on viewport.onScroll
  changedHandlers,                 \* handlers this object holds on viewport.onChanged
  nextHandlerId,                   \* next handler identity handed out by an observable
  measures,                        \* vsync.measure callbacks requested and not yet run
  timers,                          \* outstanding timer.delay timers: set of [id, due]
  nextTimerId,                     \* next timer handle
  now,                             \* the clock, in milliseconds
  layout,                          \* what the element measures: the viewport rect and its layout box
  sent,                            \* log of postMessageToWindows calls
  appended,                        \* log of the entries pushed on pendingChanges_
  triggers,                        \* log of the sendElementIntersection_ calls made once active
  handshaken,                      \* windows that have sent 'send-intersections'
  nOps,                            \* operations the page has delivered so far
  lastOp                           \* the latest operation and what it did

vars == << clientWindows_, shouldSendIntersectionChanges_, inViewport_,
           pendingChanges_, flushTimeout_, unlistenViewportChanges_,
           scrollHandlers, changedHandlers, nextHandlerId, measures, timers,
           nextTimerId, now, layout, sent, appended, triggers, handshaken, nOps, lastOp >>

\* ------------------------------------------------------- the state record
\* The handlers below read and write this record; calls, releasedScroll and
\* releasedChanged count what one handler run did.
State ==
  [ clientWindows_ |-> clientWindows_,
    shouldSendIntersectionChanges_ |-> shouldSendIntersectionChanges_,
    inViewport_ |-> inViewport_,
    pendingChanges_ |-> pendingChanges_,
    flushTimeout_ |-> flushTimeout_,
    unlistenViewportChanges_ |-> unlistenViewportChanges_,
    scrollHandlers |-> scrollHandlers,
    changedHandlers |-> changedHandlers,
    nextHandlerId |-> nextHandlerId,
    measures |-> measures,
    timers |-> timers,
    nextTimerId |-> nextTimerId,
    now |-> now,
    layout |-> layout,
    sent |-> sent,
    appended |-> appended,
    triggers |-> triggers,
    calls |-> 0,
    releasedScroll |-> 0,
    releasedChanged |-> 0 ]

\* --------------------------------------------------------- collaborators
\* layoutRectLtwh(left, top, width, height)
layoutRectLtwh(left, top, width, height) ==
  [left |-> left, top |-> top, width |-> width, height |-> height,
   bottom |-> top + height, right |-> left + width]

\* moveLayoutRect(rect, dx, dy)
moveLayoutRect(rect, dx, dy) ==
  layoutRectLtwh(rect.left + dx, rect.top + dy, rect.width, rect.height)

Max(a, b) == IF a >= b THEN a ELSE b
Min(a, b) == IF a <= b THEN a ELSE b

\* what rectIntersection answers for two rectangles that do not overlap
NoRect == [left |-> -1, top |-> -1, width |-> -1, height |-> -1,
           bottom |-> -1, right |-> -1]

\* rectIntersection(r1, r2): the overlap of the two rectangles, or null
rectIntersection(r1, r2) ==
  LET x0 == Max(r1.left, r2.left)
      x1 == Min(r1.left + r1.width, r2.left + r2.width)
      y0 == Max(r1.top, r2.top)
      y1 == Min(r1.top + r1.height, r2.top + r2.height)
  IN  IF x1 < x0 \/ y1 < y0
      THEN NoRect
      ELSE layoutRectLtwh(x0, y0, x1 - x0, y1 - y0)

\* a rectangle with the x and y the function assigns from left and top
WithXY(rect) ==
  [left |-> rect.left, top |-> rect.top, width |-> rect.width,
   height |-> rect.height, bottom |-> rect.bottom, right |-> rect.right,
   x |-> rect.left, y |-> rect.top]

\* getIntersectionChangeEntry without the fallback to layoutRectLtwh(0, 0, 0, 0)
getIntersectionChangeEntry_noFallback(measureTime, rootBounds, elementLayoutBox) ==
  LET root == WithXY(rootBounds)
      boundingClientRect ==
        moveLayoutRect(elementLayoutBox, -1 * root.x, -1 * root.y)
      intersectionRect == rectIntersection(root, elementLayoutBox)
  IN  [time |-> measureTime,
       rootBounds |-> root,
       boundingClientRect |-> WithXY(boundingClientRect),
       intersectionRect |-> WithXY(intersectionRect)]

\* getIntersectionChangeEntry(measureTime, rootBounds, elementLayoutBox)
getIntersectionChangeEntry(measureTime, rootBounds, elementLayoutBox) ==
  LET root == WithXY(rootBounds)
      boundingClientRect ==
        moveLayoutRect(elementLayoutBox, -1 * root.x, -1 * root.y)
      found == rectIntersection(root, elementLayoutBox)
      intersectionRect ==
        IF found # NoRect THEN found ELSE layoutRectLtwh(0, 0, 0, 0)
  IN  [time |-> measureTime,
       rootBounds |-> root,
       boundingClientRect |-> WithXY(boundingClientRect),
       intersectionRect |-> WithXY(intersectionRect)]

\* the geometry the element reports: the viewport and the element's box
ViewportRect == layoutRectLtwh(0, 50, 100, 100)
ElementBox   == layoutRectLtwh(10, 120, 30, 40)

\* this.baseElement_.element.getIntersectionChangeEntry(): builds the entry
\* from the element's measurement clock, the viewport and the layout box.
elementGetIntersectionChangeEntry(s) ==
  getIntersectionChangeEntry(s.now, s.layout.viewport, s.layout.box)

\* postMessageToWindows(iframe, windows, name, data, is3p): one message,
\* delivered to every window of the list, carrying the data as it is now.
postMessageToWindows(s, windows, name, changes) ==
  [s EXCEPT !.sent = Append(@, [at |-> s.now, name |-> name,
                                 to |-> windows, changes |-> changes])]

\* timer.delay(callback, ms): returns a non-zero handle.
timerDelay(s, ms) ==
  [s EXCEPT !.timers = @ \cup {[id |-> s.nextTimerId, due |-> s.now + ms]},
            !.flushTimeout_ = s.nextTimerId,
            !.nextTimerId = @ + 1]

\* vsync.measure(callback): the callback runs once, later.
vsyncMeasure(s) == [s EXCEPT !.measures = @ + 1]

\* ------------------------------------------------------------- the class
\* flush_() leaving the sent entries in the queue
flush_keepsQueue(s) ==
  LET s1 == [s EXCEPT !.flushTimeout_ = 0]
  IN  IF Len(s1.pendingChanges_) = 0
      THEN s1
      ELSE postMessageToWindows(s1, s1.clientWindows_, "intersection",
                                s1.pendingChanges_)

\* flush_() without the early return on an empty queue
flush_sendsEmpty(s) ==
  LET s1 == [s EXCEPT !.flushTimeout_ = 0]
  IN  [postMessageToWindows(s1, s1.clientWindows_, "intersection",
                            s1.pendingChanges_)
         EXCEPT !.pendingChanges_ = << >>]

\* flush_() clearing flushTimeout_ only after the early return
flush_clearsLate(s) ==
  IF Len(s.pendingChanges_) = 0
  THEN s
  ELSE [postMessageToWindows(s, s.clientWindows_, "intersection",
                             s.pendingChanges_)
          EXCEPT !.pendingChanges_ = << >>, !.flushTimeout_ = 0]

\* flush_() emptying the array before posting it
flush_clearsFirst(s) ==
  LET s1 == [s EXCEPT !.flushTimeout_ = 0]
  IN  IF Len(s1.pendingChanges_) = 0
      THEN s1
      ELSE postMessageToWindows([s1 EXCEPT !.pendingChanges_ = << >>],
                                s1.clientWindows_, "intersection", << >>)

\* flush_()
flush_(s) ==
  LET s1 == [s EXCEPT !.flushTimeout_ = 0]
  IN  IF Len(s1.pendingChanges_) = 0
      THEN s1
      ELSE [postMessageToWindows(s1, s1.clientWindows_, "intersection",
                                 s1.pendingChanges_)
              EXCEPT !.pendingChanges_ = << >>]

\* sendElementIntersection_() without the early return of an inactive object
sendElementIntersection_unguarded(s) ==
  LET change == elementGetIntersectionChangeEntry(s)
      n      == Len(s.pendingChanges_)
  IN  IF n > 0 /\ s.pendingChanges_[n].time = change.time
      THEN s
      ELSE LET s1 == [s EXCEPT !.pendingChanges_ = Append(@, change),
                               !.appended = Append(@, change)]
           IN  IF s1.flushTimeout_ = 0
               THEN timerDelay(flush_(s1), FlushDelay)
               ELSE s1

\* sendElementIntersection_() without the comparison of times
sendElementIntersection_noDedup(s) ==
  IF ~s.shouldSendIntersectionChanges_
  THEN s
  ELSE LET change == elementGetIntersectionChangeEntry(s)
           s1 == [s EXCEPT !.pendingChanges_ = Append(@, change),
                           !.appended = Append(@, change)]
       IN  IF s1.flushTimeout_ = 0
           THEN timerDelay(flush_(s1), FlushDelay)
           ELSE s1

\* sendElementIntersection_() putting the new entry at the head of the queue
sendElementIntersection_unshifts(s) ==
  IF ~s.shouldSendIntersectionChanges_
  THEN s
  ELSE LET change == elementGetIntersectionChangeEntry(s)
           n      == Len(s.pendingChanges_)
       IN  IF n > 0 /\ s.pendingChanges_[n].time = change.time
           THEN s
           ELSE LET s1 == [s EXCEPT !.pendingChanges_ = << change >> \o @,
                                    !.appended = Append(@, change)]
                IN  IF s1.flushTimeout_ = 0
                    THEN timerDelay(flush_(s1), FlushDelay)
                    ELSE s1

\* sendElementIntersection_() flushing on every push, whatever flushTimeout_ is
sendElementIntersection_noCoalesce(s) ==
  IF ~s.shouldSendIntersectionChanges_
  THEN s
  ELSE LET change == elementGetIntersectionChangeEntry(s)
           n      == Len(s.pendingChanges_)
       IN  IF n > 0 /\ s.pendingChanges_[n].time = change.time
           THEN s
           ELSE LET s1 == [s EXCEPT !.pendingChanges_ = Append(@, change),
                                    !.appended = Append(@, change)]
                IN  timerDelay(flush_(s1), FlushDelay)

\* sendElementIntersection_() starting a timer on every push
sendElementIntersection_alwaysDelays(s) ==
  IF ~s.shouldSendIntersectionChanges_
  THEN s
  ELSE LET change == elementGetIntersectionChangeEntry(s)
           n      == Len(s.pendingChanges_)
       IN  IF n > 0 /\ s.pendingChanges_[n].time = change.time
           THEN s
           ELSE LET s1 == [s EXCEPT !.pendingChanges_ = Append(@, change),
                                    !.appended = Append(@, change)]
                IN  timerDelay(IF s1.flushTimeout_ = 0 THEN flush_(s1) ELSE s1,
                               FlushDelay)

\* sendElementIntersection_()
sendElementIntersection_(s) ==
  IF ~s.shouldSendIntersectionChanges_
  THEN s
  ELSE LET change == elementGetIntersectionChangeEntry(s)
           n      == Len(s.pendingChanges_)
       IN  IF n > 0 /\ s.pendingChanges_[n].time = change.time
           THEN s
           ELSE LET s1 == [s EXCEPT !.pendingChanges_ = Append(@, change),
                                    !.appended = Append(@, change)]
                IN  IF s1.flushTimeout_ = 0
                    THEN timerDelay(flush_(s1), FlushDelay)
                    ELSE s1

\* Observable.fire(): runs the one handler init_ added, which calls
\* sendElementIntersection_().  The call is counted, and logged once the
\* object is active: when it came, whether a flush timer was set, and how
\* much had been sent and pushed before it.
fire(s) ==
  sendElementIntersection_(
    [s EXCEPT !.calls = @ + 1,
              !.triggers =
                 IF s.shouldSendIntersectionChanges_
                 THEN Append(@, [at |-> s.now, timer |-> s.flushTimeout_,
                                 sentBefore |-> Len(s.sent),
                                 appendedBefore |-> Len(s.appended)])
                 ELSE @])

\* onViewportCallback(inViewport) dropping the closure without calling it
onViewportCallback_noRelease(s, inViewport) ==
  IF s.inViewport_ = inViewport
  THEN s
  ELSE LET s1 == fire([s EXCEPT !.inViewport_ = inViewport])
       IN  IF inViewport
           THEN [s1 EXCEPT
                   !.scrollHandlers = @ \cup {s1.nextHandlerId},
                   !.changedHandlers = @ \cup {s1.nextHandlerId + 1},
                   !.nextHandlerId = @ + 2,
                   !.unlistenViewportChanges_ =
                       Closure(s1.nextHandlerId, s1.nextHandlerId + 1)]
           ELSE IF s1.unlistenViewportChanges_.kind = "function"
                THEN [s1 EXCEPT !.unlistenViewportChanges_ = Null]
                ELSE s1

\* onViewportCallback(inViewport) whose closure forgets unlistenScroll()
onViewportCallback_keepsScroll(s, inViewport) ==
  IF s.inViewport_ = inViewport
  THEN s
  ELSE LET s1 == fire([s EXCEPT !.inViewport_ = inViewport])
       IN  IF inViewport
           THEN [s1 EXCEPT
                   !.scrollHandlers = @ \cup {s1.nextHandlerId},
                   !.changedHandlers = @ \cup {s1.nextHandlerId + 1},
                   !.nextHandlerId = @ + 2,
                   !.unlistenViewportChanges_ =
                       Closure(s1.nextHandlerId, s1.nextHandlerId + 1)]
           ELSE IF s1.unlistenViewportChanges_.kind = "function"
                THEN [s1 EXCEPT
                        !.changedHandlers = @ \ {s1.unlistenViewportChanges_.changed},
                        !.releasedChanged = @ + 1,
                        !.unlistenViewportChanges_ = Null]
                ELSE s1

\* onViewportCallback(inViewport) without the early return on an unchanged value
onViewportCallback_noEarlyReturn(s, inViewport) ==
  LET s1 == fire([s EXCEPT !.inViewport_ = inViewport])
  IN  IF inViewport
      THEN [s1 EXCEPT
              !.scrollHandlers = @ \cup {s1.nextHandlerId},
              !.changedHandlers = @ \cup {s1.nextHandlerId + 1},
              !.nextHandlerId = @ + 2,
              !.unlistenViewportChanges_ =
                  Closure(s1.nextHandlerId, s1.nextHandlerId + 1)]
      ELSE IF s1.unlistenViewportChanges_.kind = "function"
           THEN [s1 EXCEPT
                   !.scrollHandlers = @ \ {s1.unlistenViewportChanges_.scroll},
                   !.changedHandlers = @ \ {s1.unlistenViewportChanges_.changed},
                   !.releasedScroll = @ + 1,
                   !.releasedChanged = @ + 1,
                   !.unlistenViewportChanges_ = Null]
           ELSE s1

\* onViewportCallback(inViewport)
onViewportCallback(s, inViewport) ==
  IF s.inViewport_ = inViewport
  THEN s
  ELSE LET s1 == fire([s EXCEPT !.inViewport_ = inViewport])
       IN  IF inViewport
           THEN [s1 EXCEPT
                   !.scrollHandlers = @ \cup {s1.nextHandlerId},
                   !.changedHandlers = @ \cup {s1.nextHandlerId + 1},
                   !.nextHandlerId = @ + 2,
                   !.unlistenViewportChanges_ =
                       Closure(s1.nextHandlerId, s1.nextHandlerId + 1)]
           ELSE IF s1.unlistenViewportChanges_.kind = "function"
                THEN [s1 EXCEPT
                        !.scrollHandlers = @ \ {s1.unlistenViewportChanges_.scroll},
                        !.changedHandlers = @ \ {s1.unlistenViewportChanges_.changed},
                        !.releasedScroll = @ + 1,
                        !.releasedChanged = @ + 1,
                        !.unlistenViewportChanges_ = Null]
                ELSE s1

\* startSendingIntersectionChanges_() flipping the flag instead of setting it
startSendingIntersectionChanges_toggles(s) ==
  vsyncMeasure([s EXCEPT !.shouldSendIntersectionChanges_ = ~@])

\* startSendingIntersectionChanges_()
startSendingIntersectionChanges_(s) ==
  vsyncMeasure([s EXCEPT !.shouldSendIntersectionChanges_ = TRUE])

\* the measure callback without its closing this.fire()
measureCallback_noFire(s, isInViewport) ==
  IF isInViewport THEN onViewportCallback(s, TRUE) ELSE s

\* the measure callback entering the viewport without asking isInViewport()
measureCallback_alwaysEnters(s, isInViewport) ==
  fire(onViewportCallback(s, TRUE))

\* the callback startSendingIntersectionChanges_ hands to vsync.measure;
\* isInViewport is what this.baseElement_.isInViewport() answers when it runs
measureCallback(s, isInViewport) ==
  fire(IF isInViewport THEN onViewportCallback(s, TRUE) ELSE s)

\* the listener, looking the sender up by origin instead of by window
init_byOrigin(s, source, origin) ==
  startSendingIntersectionChanges_(
    IF ~(\E i \in 1..Len(s.clientWindows_) : s.clientWindows_[i].origin = origin)
    THEN [s EXCEPT !.clientWindows_ = Append(@, [win |-> source, origin |-> origin])]
    ELSE s)

\* the 'send-intersections' listener init_ registers
init_(s, source, origin) ==
  startSendingIntersectionChanges_(
    IF ~(\E i \in 1..Len(s.clientWindows_) : s.clientWindows_[i].win = source)
    THEN [s EXCEPT !.clientWindows_ = Append(@, [win |-> source, origin |-> origin])]
    ELSE s)

\* a viewport observable firing: every handler registered on it is `send`
RECURSIVE fireAll(_, _)
fireAll(s, n) == IF n = 0 THEN s ELSE fireAll(fire(s), n - 1)

\* ---------------------------------------------------------------- actions
NoArg == "-"

\* r is the state record a handler returned
Apply(r) ==
  /\ clientWindows_' = r.clientWindows_
  /\ shouldSendIntersectionChanges_' = r.shouldSendIntersectionChanges_
  /\ inViewport_' = r.inViewport_
  /\ pendingChanges_' = r.pendingChanges_
  /\ flushTimeout_' = r.flushTimeout_
  /\ unlistenViewportChanges_' = r.unlistenViewportChanges_
  /\ scrollHandlers' = r.scrollHandlers
  /\ changedHandlers' = r.changedHandlers
  /\ nextHandlerId' = r.nextHandlerId
  /\ measures' = r.measures
  /\ timers' = r.timers
  /\ nextTimerId' = r.nextTimerId
  /\ now' = r.now
  /\ layout' = r.layout
  /\ sent' = r.sent
  /\ appended' = r.appended
  /\ triggers' = r.triggers

Did(op, win, flag, r) ==
  lastOp' = [op |-> op, win |-> win, flag |-> flag, calls |-> r.calls,
             releasedScroll |-> r.releasedScroll,
             releasedChanged |-> r.releasedChanged]

\* the object as its constructor leaves it
Constructed ==
  /\ clientWindows_ = << >>
  /\ shouldSendIntersectionChanges_ = FALSE
  /\ inViewport_ = FALSE
  /\ pendingChanges_ = << >>
  /\ flushTimeout_ = 0
  /\ unlistenViewportChanges_ = Undefined
  /\ scrollHandlers = {}
  /\ changedHandlers = {}
  /\ nextHandlerId = 1
  /\ measures = 0
  /\ timers = {}
  /\ nextTimerId = 1
  /\ now = 0
  /\ sent = << >>
  /\ appended = << >>
  /\ triggers = << >>
  /\ handshaken = {}
  /\ nOps = 0
  /\ lastOp = [op |-> "init", win |-> NoArg, flag |-> FALSE, calls |-> 0,
               releasedScroll |-> 0, releasedChanged |-> 0]

Init ==
  /\ Constructed
  /\ layout = [viewport |-> ViewportRect, box |-> ElementBox]

\* a window of the iframe posts 'send-intersections'
Handshake ==
  /\ nOps < MaxOps
  /\ \E source \in Wins, origin \in Origins :
       LET r == init_(State, source, origin)
       IN  /\ Apply(r)
           /\ handshaken' = handshaken \cup {source}
           /\ Did("handshake", source, FALSE, r)
           /\ nOps' = nOps + 1

\* vsync runs a requested measure callback
MeasureDone ==
  /\ measures > 0
  /\ \E isInViewport \in BOOLEAN :
       LET r == measureCallback([State EXCEPT !.measures = @ - 1], isInViewport)
       IN  /\ Apply(r)
           /\ Did("measure", NoArg, isInViewport, r)
           /\ UNCHANGED << handshaken, nOps >>

\* the element's viewportCallback calls onViewportCallback(inViewport)
ViewportCallback ==
  /\ nOps < MaxOps
  /\ \E inViewport \in BOOLEAN :
       LET r == onViewportCallback(State, inViewport)
       IN  /\ Apply(r)
           /\ Did("viewport", NoArg, inViewport, r)
           /\ nOps' = nOps + 1
           /\ UNCHANGED handshaken

\* the viewport scrolls: its scroll observable fires
Scroll ==
  /\ nOps < MaxOps
  /\ LET r == fireAll(State, Cardinality(scrollHandlers))
     IN  /\ Apply(r)
         /\ Did("scroll", NoArg, FALSE, r)
         /\ nOps' = nOps + 1
         /\ UNCHANGED handshaken

\* the viewport changes (throttled scroll, resize): its changed observable fires
Changed ==
  /\ nOps < MaxOps
  /\ LET r == fireAll(State, Cardinality(changedHandlers))
     IN  /\ Apply(r)
         /\ Did("changed", NoArg, FALSE, r)
         /\ nOps' = nOps + 1
         /\ UNCHANGED handshaken

\* a timer that is due runs its callback, boundFlush_
TimerFire ==
  \E t \in timers :
    /\ t.due <= now
    /\ LET r == flush_([State EXCEPT !.timers = @ \ {t}])
       IN  /\ Apply(r)
           /\ Did("timer", NoArg, FALSE, r)
           /\ UNCHANGED << handshaken, nOps >>

\* time passes
Tick ==
  /\ now + TickStep <= MaxTime
  /\ Apply([State EXCEPT !.now = @ + TickStep])
  /\ lastOp' = [op |-> "tick", win |-> NoArg, flag |-> FALSE, calls |-> 0,
                releasedScroll |-> 0, releasedChanged |-> 0]
  /\ UNCHANGED << handshaken, nOps >>

Next ==
  \/ Handshake
  \/ MeasureDone
  \/ ViewportCallback
  \/ Scroll
  \/ Changed
  \/ TimerFire
  \/ Tick

Spec == Init /\ [][Next]_vars

\* --------------------------------------------- runs in which timers fire
\* time passes, also beyond MaxTime while a timer is still waiting for it
TickLive ==
  /\ \/ now + TickStep <= MaxTime
     \/ \E tm \in timers : tm.due > now
  /\ Apply([State EXCEPT !.now = @ + TickStep])
  /\ lastOp' = [op |-> "tick", win |-> NoArg, flag |-> FALSE, calls |-> 0,
                releasedScroll |-> 0, releasedChanged |-> 0]
  /\ UNCHANGED << handshaken, nOps >>

NextLive ==
  \/ (nOps < MaxLiveOps /\ Handshake)
  \/ MeasureDone
  \/ (nOps < MaxLiveOps /\ ViewportCallback)
  \/ (nOps < MaxLiveOps /\ Scroll)
  \/ (nOps < MaxLiveOps /\ Changed)
  \/ TimerFire
  \/ TickLive

\* the clock advances until every timer is due, and a due timer fires
SpecLive ==
  /\ Init
  /\ [][NextLive]_vars
  /\ WF_vars(TickLive)
  /\ WF_vars(TimerFire)

\* ---------------------------------------- the entry over all small layouts
\* rectangles with non-negative dimensions, as layoutRectLtwh builds them
Rects ==
  { layoutRectLtwh(l, tp, w, h) :
      l \in 0..GeomMax, tp \in 0..GeomMax, w \in 0..GeomMax, h \in 0..GeomMax }

InitGeom ==
  /\ Constructed
  /\ layout \in [viewport : Rects, box : Rects]

\* one handshake and its measure callback: the object builds an entry from
\* the layout and sends it
NextGeom ==
  \/ (nOps = 0 /\ Handshake)
  \/ MeasureDone

SpecGeom == InitGeom /\ [][NextGeom]_vars

\* ------------------------------------------------------- reading the logs
Times(entries) == [i \in 1..Len(entries) |-> entries[i].time]
WinsOf(windows) == [i \in 1..Len(windows) |-> windows[i].win]

RECURSIVE Payloads(_, _, _)
\* the entries carried by the messages sent[from..to], concatenated
Payloads(log, from, to) ==
  IF from > to THEN << >>
  ELSE log[from].changes \o Payloads(log, from + 1, to)

\* did the i-th logged call push an entry?
Pushed(i) ==
  (IF i < Len(triggers) THEN triggers[i + 1].appendedBefore ELSE Len(appended))
    > triggers[i].appendedBefore

\* the rate-limit window in progress or just closed: it opened with the
\* latest logged call that found no flush timer set
WindowOpener ==
  CHOOSE k \in 1..Len(triggers) :
    /\ triggers[k].timer = 0
    /\ \A j \in (k + 1)..Len(triggers) : triggers[j].timer # 0
WindowCalls == SubSeq(triggers, WindowOpener, Len(triggers))
WindowSent  == SubSeq(sent, triggers[WindowOpener].sentBefore + 1, Len(sent))
WindowCarried ==
  Payloads(sent, triggers[WindowOpener].sentBefore + 1, Len(sent))
\* a window has just been closed by its timer, after N >= 2 calls that all
\* came within FlushDelay of the first
WindowClosed ==
  /\ lastOp.op = "timer"
  /\ Len(triggers) >= 2
  /\ Len(WindowCalls) >= 2
  /\ \A i \in 1..Len(WindowCalls) :
       WindowCalls[i].at < WindowCalls[1].at + FlushDelay
TwoBroadcasts ==
  /\ Len(WindowSent) = 2
  /\ WindowSent[1].at = WindowCalls[1].at
  /\ WindowSent[2].at = now

\* ----------------------------------------------------------------- claims

\* C1: as long as no 'send-intersections' handshake has been received,
\* whatever viewport callbacks and scroll/changed notifications arrive,
\* nothing has been sent, nothing is queued and no flush timer is set.
C1_NoHandshakeNoTraffic ==
  handshaken = {} =>
    /\ sent = << >>
    /\ pendingChanges_ = << >>
    /\ appended = << >>
    /\ flushTimeout_ = 0
    /\ timers = {}
\* a scroll notification reached sendElementIntersection_ on an object that
\* never received a handshake
C1_Witness ==
  /\ handshaken = {}
  /\ lastOp.op = "scroll"
  /\ lastOp.calls > 0
  /\ inViewport_

\* C2 (Scenario A, as claimed): after one handshake from w1 on a fresh
\* object the object is active; once its measurement has completed with the
\* element in the viewport, and nothing else but time and timers has
\* happened, exactly one message has been sent, to w1, with one entry.
C2_ScenarioA_OneBroadcast ==
  /\ (nOps = 1 /\ handshaken = {"w1"} /\ lastOp.op = "handshake") =>
        /\ shouldSendIntersectionChanges_
        /\ measures = 1
  /\ (nOps = 1 /\ handshaken = {"w1"} /\ measures = 0 /\ inViewport_) =>
        /\ Len(sent) = 1
        /\ Len(sent[1].changes) = 1
        /\ WinsOf(sent[1].to) = << "w1" >>

\* C3 (as claimed): any two consecutive messages are at least FlushDelay
\* apart, and the first entry ever pushed is sent at once.
C3_RateLimit ==
  /\ \A i \in 2..Len(sent) : sent[i].at - sent[i - 1].at >= FlushDelay
  /\ Len(appended) >= 1 =>
        /\ Len(sent) >= 1
        /\ sent[1].at = appended[1].time

\* C4 (as claimed): N >= 2 calls in one window give exactly two messages,
\* which together carry one entry per call, in time order.
C4_WindowCarriesAllN ==
  WindowClosed =>
    /\ TwoBroadcasts
    /\ Times(WindowCarried) = [i \in 1..Len(WindowCalls) |-> WindowCalls[i].at]

\* C4 (amended): N >= 2 calls in one window give exactly two messages, one
\* at once and one when the timer closes the window; together they carry,
\* in time order, the entry of every call of the window except the calls
\* dropped because their time equals the time of the entry queued before
\* them; they carry all N entries when calls 2..N have distinct times.
C4_WindowCarriesPushed ==
  WindowClosed =>
    LET k == WindowOpener
        n == Len(WindowCalls)
        kept == { i \in k..Len(triggers) : Pushed(i) }
    IN  /\ TwoBroadcasts
        /\ Len(WindowSent[1].changes) = 1
        /\ WindowCarried = SubSeq(appended, triggers[k].appendedBefore + 1,
                                  Len(appended))
        /\ Len(WindowCarried) = Cardinality(kept)
        /\ \A i \in 1..(Len(WindowCarried) - 1) :
             WindowCarried[i].time <= WindowCarried[i + 1].time
        /\ \A i \in k..Len(triggers) :
             ~Pushed(i) => /\ i > k + 1
                           /\ triggers[i].at = triggers[i - 1].at
        /\ (\A i, j \in 2..n : i # j => WindowCalls[i].at # WindowCalls[j].at)
             => Len(WindowCarried) = n
\* a window of three calls closed after one of them was dropped
C4_Witness ==
  /\ WindowClosed
  /\ Len(WindowCalls) >= 3
  /\ \E i \in WindowOpener..Len(triggers) : ~Pushed(i)
  /\ Len(WindowCarried) = 2

\* C5 (as claimed): of two consecutive calls with the same time, the second
\* pushes nothing.
C5_SecondOfEqualTimesDropped ==
  \A i \in 1..(Len(triggers) - 1) :
    triggers[i].at = triggers[i + 1].at => ~Pushed(i + 1)

\* C6: pendingChanges_ never holds two entries with the same time.
C6_QueueTimesDistinct ==
  \A i, j \in 1..Len(pendingChanges_) :
    i # j => pendingChanges_[i].time # pendingChanges_[j].time
\* two entries are queued and the latest call was dropped as a duplicate
C6_Witness ==
  /\ Len(pendingChanges_) >= 2
  /\ Len(triggers) >= 1
  /\ ~Pushed(Len(triggers))
  /\ lastOp.calls > 0

\* C7: clientWindows_ holds exactly one entry for every window that has
\* sent a handshake: a repeated handshake adds nothing, and two windows of
\* one origin have an entry each.
C7_OneEntryPerWindow ==
  /\ { clientWindows_[i].win : i \in 1..Len(clientWindows_) } = handshaken
  /\ Len(clientWindows_) = Cardinality(handshaken)
\* three handshakes came from two windows that share an origin
C7_Witness ==
  /\ lastOp.op = "handshake"
  /\ measures = 3
  /\ Len(clientWindows_) = 2
  /\ clientWindows_[1].origin = clientWindows_[2].origin

\* C8: between operations the object holds its scroll and changed
\* subscriptions (and the closure that releases them) exactly when
\* inViewport_ is true.
C8_SubscribedIffInViewport ==
  /\ inViewport_ =>
       /\ unlistenViewportChanges_.kind = "function"
       /\ scrollHandlers = { unlistenViewportChanges_.scroll }
       /\ changedHandlers = { unlistenViewportChanges_.changed }
  /\ ~inViewport_ =>
       /\ unlistenViewportChanges_.kind # "function"
       /\ scrollHandlers = {}
       /\ changedHandlers = {}
\* the object subscribed when a measurement found the element visible, and a
\* later viewport callback released the subscriptions
C8_Witness ==
  /\ ~inViewport_
  /\ unlistenViewportChanges_ = Null
  /\ lastOp.op = "viewport"
  /\ lastOp.releasedScroll = 1
  /\ shouldSendIntersectionChanges_

\* C9 (Scenario D): the step that takes inViewport_ from true to false
\* releases the scroll and the changed subscription once each and leaves
\* none; no other step releases anything; and a scroll or changed
\* notification arriving while inViewport_ is false calls
\* sendElementIntersection_ zero times.
C9_ReleasedOnceThenSilent ==
  [][ /\ (inViewport_ /\ ~inViewport_') =>
           /\ lastOp'.releasedScroll = 1
           /\ lastOp'.releasedChanged = 1
           /\ scrollHandlers' = {}
           /\ changedHandlers' = {}
           /\ unlistenViewportChanges_' = Null
      /\ ~(inViewport_ /\ ~inViewport_') =>
           /\ lastOp'.releasedScroll = 0
           /\ lastOp'.releasedChanged = 0
      /\ (lastOp'.op \in {"scroll", "changed"} /\ ~inViewport_) =>
           /\ lastOp'.calls = 0
           /\ sent' = sent
           /\ pendingChanges_' = pendingChanges_ ]_vars
\* a scroll notification arrived at an active object after its
\* subscriptions were released
C9_Witness ==
  /\ lastOp.op = "scroll"
  /\ ~inViewport_
  /\ unlistenViewportChanges_ = Null
  /\ shouldSendIntersectionChanges_

\* C10: shouldSendIntersectionChanges_ is true exactly from the first
\* handshake on, and no step ever takes it from true to false.
C10_ActiveForever ==
  /\ [](shouldSendIntersectionChanges_ <=> handshaken # {})
  /\ [][shouldSendIntersectionChanges_ => shouldSendIntersectionChanges_']_vars
\* the object is still active after sending and after repeated handshakes
C10_Witness ==
  /\ shouldSendIntersectionChanges_
  /\ nOps >= 2
  /\ Cardinality(handshaken) = 1
  /\ measures = 2
  /\ Len(sent) >= 1

\* how many entries the messages before the i-th carried
CarriedBefore(i) == Len(Payloads(sent, 1, i - 1))

\* C11: every message lists its entries in non-decreasing order of time,
\* and in the order in which they were pushed: its payload is the run of
\* pushed entries that follows those already carried.
C11_PayloadInPushOrder ==
  \A i \in 1..Len(sent) :
    LET changes == sent[i].changes
    IN  /\ \A j \in 1..(Len(changes) - 1) : changes[j].time <= changes[j + 1].time
        /\ CarriedBefore(i) + Len(changes) <= Len(appended)
        /\ changes = SubSeq(appended, CarriedBefore(i) + 1,
                            CarriedBefore(i) + Len(changes))
\* a message carried two entries measured at different times
C11_Witness ==
  \E i \in 1..Len(sent) :
    /\ Len(sent[i].changes) >= 2
    /\ sent[i].changes[1].time < sent[i].changes[2].time

\* C12: no message is ever empty, and every message is an 'intersection'
\* message.  flush_ run by the timer sends nothing when the queue is empty,
\* and otherwise sends the whole queue, in order, to every window of
\* clientWindows_ in one message and leaves the queue empty.  flush_ run
\* from sendElementIntersection_ sends the whole queue, the new entry last,
\* and leaves the queue empty (only entries pushed after it remain).
C12_FlushSendsWholeQueue ==
  /\ [](\A i \in 1..Len(sent) :
          /\ sent[i].name = "intersection"
          /\ Len(sent[i].changes) >= 1)
  /\ [][ lastOp'.op = "timer" =>
           /\ pendingChanges_' = << >>
           /\ IF pendingChanges_ = << >>
              THEN sent' = sent
              ELSE sent' = Append(sent, [at |-> now, name |-> "intersection",
                                         to |-> clientWindows_,
                                         changes |-> pendingChanges_]) ]_vars
  /\ [][ (lastOp'.op # "timer" /\ sent' # sent) =>
           /\ Len(sent') = Len(sent) + 1
           /\ Len(appended') > Len(appended)
           /\ sent'[Len(sent')] =
                [at |-> now, name |-> "intersection", to |-> clientWindows_,
                 changes |-> pendingChanges_ \o << appended'[Len(appended) + 1] >>]
           /\ pendingChanges_' =
                SubSeq(appended', Len(appended) + 2, Len(appended')) ]_vars
\* the timer has just sent two queued entries to two windows
C12_Witness ==
  /\ lastOp.op = "timer"
  /\ pendingChanges_ = << >>
  /\ Len(sent) >= 2
  /\ Len(sent[Len(sent)].to) = 2
  /\ Len(sent[Len(sent)].changes) >= 2

\* the first sendElementIntersection_ call of the latest operation, in the log
FirstCallOfStep == Len(triggers) - lastOp.calls + 1
\* the latest operation sent a message
SentInLastStep ==
  /\ lastOp.calls >= 1
  /\ Len(sent) > triggers[FirstCallOfStep].sentBefore
Registered == { clientWindows_[i].win : i \in 1..Len(clientWindows_) }
LastSentTo ==
  { sent[Len(sent)].to[i].win : i \in 1..Len(sent[Len(sent)].to) }

\* C13 (as claimed): whenever a handshake's measure callback has run, a
\* message with an entry went, in that very step, to the windows that sent
\* a handshake.
C13_BaselineInSameStep ==
  lastOp.op = "measure" =>
    /\ SentInLastStep
    /\ handshaken \subseteq LastSentTo

\* C13 (amended): when a handshake's measure callback has run, then if no
\* flush timer was set, a message with an entry went in that step to every
\* window that sent a handshake; if a flush timer was set, nothing was sent
\* in that step, but an entry is queued, the timer is outstanding and every
\* window that sent a handshake is in clientWindows_, to which the timer's
\* flush_ sends the queue.
C13_BaselineNowOrAtTimer ==
  lastOp.op = "measure" =>
    /\ lastOp.calls >= 1
    /\ handshaken \subseteq Registered
    /\ IF triggers[FirstCallOfStep].timer = 0
       THEN /\ SentInLastStep
            /\ handshaken \subseteq LastSentTo
            /\ Len(sent[Len(sent)].changes) >= 1
            /\ sent[Len(sent)].at = now
       ELSE /\ ~SentInLastStep
            /\ pendingChanges_ # << >>
            /\ flushTimeout_ # 0
            /\ \E tm \in timers : tm.id = flushTimeout_
\* a second window's measure callback ran while a flush timer was set
C13_Witness ==
  /\ lastOp.op = "measure"
  /\ lastOp.calls >= 1
  /\ triggers[FirstCallOfStep].timer # 0
  /\ Cardinality(handshaken) = 2
  /\ measures = 0

\* the two rectangles have no point in common
Disjoint(a, b) ==
  \/ a.left + a.width < b.left
  \/ b.left + b.width < a.left
  \/ a.top + a.height < b.top
  \/ b.top + b.height < a.top

\* C14: for every viewport rect and layout box with non-negative
\* dimensions, the entry's intersectionRect is a rectangle (never the null
\* of rectIntersection) with non-negative width and height, and it is the
\* rectangle (0, 0, 0, 0) when the viewport and the untranslated layout box
\* have no point in common.
C14_IntersectionRectNonNegative ==
  \A i \in 1..Len(appended) :
    LET r == appended[i].intersectionRect
    IN  /\ r.width >= 0
        /\ r.height >= 0
        /\ r.x = r.left
        /\ r.y = r.top
        /\ Disjoint(layout.viewport, layout.box) =>
              /\ r.left = 0
              /\ r.top = 0
              /\ r.width = 0
              /\ r.height = 0
\* an entry was built for a box of positive area lying outside a viewport
\* that does not start at the origin
C14_Witness ==
  /\ Len(appended) >= 1
  /\ Disjoint(layout.viewport, layout.box)
  /\ layout.box.width > 0
  /\ layout.box.height > 0
  /\ layout.viewport.left > 0
  /\ appended[1].boundingClientRect.left = layout.box.left - layout.viewport.left

\* q is p with entries added at its end, or p itself
Extends(q, p) ==
  /\ Len(q) >= Len(p)
  /\ SubSeq(q, 1, Len(p)) = p

\* C15: while flushTimeout_ is set, no operation other than the timer
\* sends anything: the timer stays as it is and pushed entries only
\* lengthen the queue; the timer's flush_ clears flushTimeout_ and sends
\* everything queued in one message.  An entry pushed while flushTimeout_
\* is 0 is sent in the same step and sets the timer.
C15_CoalesceUntilTimer ==
  [][ /\ (flushTimeout_ # 0 /\ lastOp'.op # "timer") =>
           /\ sent' = sent
           /\ flushTimeout_' = flushTimeout_
           /\ timers' = timers
           /\ Extends(pendingChanges_', pendingChanges_)
      /\ (flushTimeout_ # 0 /\ lastOp'.op = "timer") =>
           /\ flushTimeout_' = 0
           /\ timers' = {}
           /\ pendingChanges_' = << >>
           /\ Len(sent') = Len(sent) + (IF pendingChanges_ = << >> THEN 0 ELSE 1)
           /\ pendingChanges_ # << >> =>
                sent'[Len(sent')].changes = pendingChanges_
      /\ (flushTimeout_ = 0 /\ Len(appended') > Len(appended)) =>
           /\ Len(sent') = Len(sent) + 1
           /\ sent'[Len(sent')].changes = << appended'[Len(appended) + 1] >>
           /\ flushTimeout_' # 0 ]_vars
\* a scroll notification added a second entry to the queue while the timer
\* was set
C15_Witness ==
  /\ flushTimeout_ # 0
  /\ Len(pendingChanges_) >= 2
  /\ lastOp.op \in {"scroll", "changed"}
  /\ lastOp.calls = 1
  /\ Pushed(Len(triggers))

\* everything of the object and its collaborators but the clock and the logs
\* of the operations delivered
Engine ==
  << clientWindows_, shouldSendIntersectionChanges_, inViewport_,
     pendingChanges_, flushTimeout_, unlistenViewportChanges_, scrollHandlers,
     changedHandlers, nextHandlerId, measures, timers, nextTimerId, sent,
     appended, triggers >>

\* C16: onViewportCallback(v) with v equal to inViewport_ changes nothing:
\* no sendElementIntersection_ call, no subscription made or released,
\* queue, timer and messages as before.  onViewportCallback(v) with v
\* different from inViewport_ sets inViewport_ to v and calls
\* sendElementIntersection_ exactly once.
C16_OncePerTransition ==
  [][ lastOp'.op = "viewport" =>
        IF lastOp'.flag = inViewport_
        THEN /\ lastOp'.calls = 0
             /\ lastOp'.releasedScroll = 0
             /\ lastOp'.releasedChanged = 0
             /\ Engine' = Engine
        ELSE /\ lastOp'.calls = 1
             /\ inViewport_' = lastOp'.flag
             /\ inViewport_' # inViewport_ ]_vars
\* onViewportCallback(true) reached an active object that was already in
\* the viewport
C16_Witness ==
  /\ lastOp.op = "viewport"
  /\ lastOp.flag
  /\ lastOp.calls = 0
  /\ inViewport_
  /\ shouldSendIntersectionChanges_
  /\ Len(sent) >= 1

\* C17: whatever happened between a handshake and the run of its measure
\* callback, the callback enters the viewport (inViewport_ becomes true,
\* one sendElementIntersection_ call, subscriptions made) exactly when
\* isInViewport() answers true at that moment and inViewport_ is false, and
\* then calls sendElementIntersection_ once more in every case.
C17_MeasureCallbackRevalidates ==
  [][ lastOp'.op = "measure" =>
        LET entered == lastOp'.flag /\ ~inViewport_
        IN  /\ measures' = measures - 1
            /\ shouldSendIntersectionChanges_
            /\ inViewport_' = (inViewport_ \/ lastOp'.flag)
            /\ lastOp'.calls = (IF entered THEN 2 ELSE 1)
            /\ Len(triggers') = Len(triggers) + lastOp'.calls
            /\ triggers'[Len(triggers')].at = now
            /\ lastOp'.releasedScroll = 0
            /\ lastOp'.releasedChanged = 0
            /\ IF entered
               THEN /\ unlistenViewportChanges_'.kind = "function"
                    /\ scrollHandlers' = { unlistenViewportChanges_'.scroll }
                    /\ changedHandlers' = { unlistenViewportChanges_'.changed }
               ELSE /\ unlistenViewportChanges_' = unlistenViewportChanges_
                    /\ scrollHandlers' = scrollHandlers
                    /\ changedHandlers' = changedHandlers ]_vars
\* a measure callback found the element visible after onViewportCallback
\* had already entered the viewport since the handshake
C17_Witness ==
  /\ lastOp.op = "measure"
  /\ lastOp.flag
  /\ lastOp.calls = 1
  /\ inViewport_
  /\ nOps = 2
  /\ Cardinality(handshaken) = 1
  /\ measures = 0
  /\ Len(triggers) = 2

\* the timer flushTimeout_ names is outstanding
TimerOutstanding ==
  /\ flushTimeout_ # 0
  /\ \E tm \in timers : tm.id = flushTimeout_

\* C18: whenever the queue is non-empty the flush timer is outstanding;
\* hence, the clock advancing and due timers firing, a non-empty queue is
\* always emptied later by the timer's flush_.
C18_NoStrandedEntries ==
  /\ [](pendingChanges_ # << >> => TimerOutstanding)
  /\ (pendingChanges_ # << >>) ~> (pendingChanges_ = << >>)
\* two entries wait for a timer that is not yet due
C18_Witness ==
  /\ Len(pendingChanges_) >= 2
  /\ TimerOutstanding
  /\ \A tm \in timers : tm.due > now

\* C19: the entries carried by all the messages so far, followed by the
\* entries still queued, are exactly the entries pushed, in push order: no
\* entry is dropped, none is carried by two messages, and once the queue
\* is empty the payloads together are the pushed entries.
C19_Conservation ==
  /\ Payloads(sent, 1, Len(sent)) \o pendingChanges_ = appended
  /\ pendingChanges_ = << >> => Payloads(sent, 1, Len(sent)) = appended
\* two messages, one of them with two entries, and a further entry queued
C19_Witness ==
  /\ Len(sent) >= 2
  /\ \E i \in 1..Len(sent) : Len(sent[i].changes) >= 2
  /\ pendingChanges_ # << >>
  /\ Len(appended) >= 4

\* C20: at most one timer is outstanding; flushTimeout_ is non-zero
\* exactly when a timer is outstanding, and then it is that timer's
\* handle; and a step that starts a timer starts it with none outstanding.
C20_SingleTimer ==
  /\ [](/\ Cardinality(timers) <= 1
        /\ flushTimeout_ # 0 <=> timers # {}
        /\ \A tm \in timers : tm.id = flushTimeout_)
  /\ [][ nextTimerId' # nextTimerId =>
           /\ timers = {}
           /\ flushTimeout_ = 0
           /\ nextTimerId' = nextTimerId + 1
           /\ timers' = {[id |-> nextTimerId, due |-> now + FlushDelay]} ]_vars
\* a second timer was started after the first one fired
C20_Witness ==
  /\ nextTimerId = 3
  /\ Cardinality(timers) = 1
  /\ lastOp.calls >= 1
  /\ pendingChanges_ = << >>

====
